---- MODULE Spec2Model ----
(***************************************************************************)
(* A model of the Threads scraper: the batch scraper of                    *)
(* src/en_thread_parser.py (scrape_english_data and the functions it       *)
(* calls).  The renderer (Playwright), the pages it returns and the files  *)
(* of earlier runs are the environment: every answer they can give is a    *)
(* nondeterministic choice from a small set.                               *)
(***************************************************************************)
EXTENDS Integers, Sequences, FiniteSets, TLC

(***************************************************************************)
(* Bounds of the model.                                                    *)
(***************************************************************************)
\* the value LIMIT_PER_KEYWORD takes in the model (the program sets 5000)
MaxLimit == 3
\* the scroll heights the renderer may report are 0..MaxHeight
MaxHeight == 2
\* a page source of the page-level specification has at most MaxBlocks script blocks
MaxBlocks == 2
\* the stable-round thresholds the specification's configuration allows are 1..MaxThreshold
MaxThreshold == 2
\* detail pages left open are counted up to MaxOpenPages
MaxOpenPages == 2
\* a reply-count string has at most MaxChars characters
MaxChars == 3

(***************************************************************************)
(* JSON values, as far as the program looks at them: the kind of the value *)
(* and the text Python's str() gives for it.                               *)
(***************************************************************************)
JNull == [kind |-> "null", text |-> "None"]
JStr(s) == [kind |-> "str", text |-> s]
JInt(s) == [kind |-> "int", text |-> s]

\* str(v)
Str(v) == v.text

\* a thread item that is a JSON object: the paths parse_thread projects
Item(id, code, username) ==
    [kind |-> "object", id |-> id, code |-> code, username |-> username]

\* jmespath: a path into something that is not an object, or to a key the object
\* does not have, gives null
Field(data, f) ==
    IF data.kind = "object" /\ f \in DOMAIN data THEN data[f] ELSE JNull

(***************************************************************************)
(* reply_count.  view_replies_cta_string is null, a JSON integer or a JSON *)
(* string, a string being the sequence of its characters.                  *)
(***************************************************************************)
RcInt(n) == [kind |-> "int", value |-> n]
RcStr(chars) == [kind |-> "str", chars |-> chars]

IsDigit(c) == c \in {"0", "1", "2", "3", "4", "5", "6", "7", "8", "9"}

DigitValue(c) ==
    CASE c = "0" -> 0 [] c = "1" -> 1 [] c = "2" -> 2 [] c = "3" -> 3 [] c = "4" -> 4
      [] c = "5" -> 5 [] c = "6" -> 6 [] c = "7" -> 7 [] c = "8" -> 8 [] c = "9" -> 9

\* int(s) of a string of digits
RECURSIVE IntOf(_)
IntOf(chars) ==
    IF chars = <<>>
    THEN 0
    ELSE 10 * IntOf(SubSeq(chars, 1, Len(chars) - 1)) + DigitValue(chars[Len(chars)])

\* s.isdigit(): not empty and digits only
IsDigitString(chars) ==
    chars # <<>> /\ \A i \in 1..Len(chars) : IsDigit(chars[i])

\* s.split(" ")[0]: what comes before the first blank
RECURSIVE FirstToken(_)
FirstToken(chars) ==
    IF chars = <<>> \/ Head(chars) = " "
    THEN <<>>
    ELSE <<Head(chars)>> \o FirstToken(Tail(chars))

\* the digits at the head of a string
RECURSIVE LeadingDigits(_)
LeadingDigits(chars) ==
    IF chars = <<>> \/ ~IsDigit(Head(chars))
    THEN <<>>
    ELSE <<Head(chars)>> \o LeadingDigits(Tail(chars))

\* re.search(r"\d+", s): the first run of digits, <<>> when there is no match
RECURSIVE FirstDigitRun(_)
FirstDigitRun(chars) ==
    IF chars = <<>>
    THEN <<>>
    ELSE IF IsDigit(Head(chars))
         THEN LeadingDigits(chars)
         ELSE FirstDigitRun(Tail(chars))

\* Python's truth value of a reply count: None, 0 and "" are false
RcTruthy(rc) ==
    CASE rc.kind = "null" -> FALSE
      [] rc.kind = "int" -> rc.value # 0
      [] rc.kind = "str" -> rc.chars # <<>>

\* en_thread_parser.py lines 85-91: only a value that is true and no int is
\* converted, from its first blank-separated token
en_reply_count(rc) ==
    IF RcTruthy(rc) /\ rc.kind # "int"
    THEN LET first == FirstToken(rc.chars) IN
         IF IsDigitString(first) THEN RcInt(IntOf(first)) ELSE RcInt(0)
    ELSE rc

\* main.py lines 35-42
main_reply_count(rc) ==
    CASE rc.kind = "int" -> rc
      [] rc.kind = "str" ->
           LET m == FirstDigitRun(rc.chars) IN
           IF m # <<>> THEN RcInt(IntOf(m)) ELSE RcInt(0)
      [] OTHER -> RcInt(0)

\* Python's None as a result of parse_thread
None == [kind |-> "none"]

(***************************************************************************)
(* parse_thread (en_thread_parser.py): jmespath's multi-select hash gives  *)
(* null only for null data, and a dict with every key otherwise, so        *)
(* `not result` is true for a null item alone.                             *)
(***************************************************************************)
parse_thread(data) ==
    IF data = JNull
    THEN None
    ELSE [id |-> Field(data, "id"),
          code |-> Field(data, "code"),
          username |-> Field(data, "username"),
          reply_count |-> en_reply_count(Field(data, "reply_count")),
          url |-> <<Str(Field(data, "username")), Str(Field(data, "code"))>>,
          repost_count |-> 0]

\* the truth value of what parse_thread returned (`if not parsed`)
Truthy(parsed) == parsed # None

(***************************************************************************)
(* A script block of a page source (one element of `datasets`): whether    *)
(* its text holds each of the two markers, whether json.loads accepts it,  *)
(* and what nested_lookup("thread_items", data) finds in it: a list of     *)
(* groups, each the value of one thread_items key.  A group is a list of   *)
(* thread items, or a value a for loop cannot iterate (a number, null).    *)
(***************************************************************************)
Group(items) == [iterable |-> TRUE, items |-> items]
NotIterable == [iterable |-> FALSE, items |-> <<>>]

Block(structural, content, valid, groups) ==
    [structural |-> structural, content |-> content, valid |-> valid,
     thread_items |-> groups]

\* a faulty variant of Qualifies: one marker is enough
Qualifies_either(raw) == raw.structural \/ raw.content

\* line 105: the block holds both markers
Qualifies(raw) == raw.structural /\ raw.content

\* lines 107-111: json.loads succeeds
Loads(raw) == raw.valid

\* a faulty variant of SeenBefore: the membership test is lost
SeenBefore_never(pid, seen) == FALSE

\* line 119: `pid in seen_ids`
SeenBefore(pid, seen) == pid \in seen

\* lines 115-123: one thread item, acc = [posts, seen_ids]
ScrapeItem(acc, t) ==
    LET parsed == parse_thread(t) IN
    IF ~Truthy(parsed)
    THEN acc
    ELSE LET pid == Str(parsed.id) IN
         IF SeenBefore(pid, acc.seen_ids)
         THEN acc
         ELSE [posts |-> Append(acc.posts, parsed),
               seen_ids |-> acc.seen_ids \cup {pid}]

\* line 114: `for t in group`
RECURSIVE ScrapeGroup(_, _)
ScrapeGroup(acc, items) ==
    IF items = <<>>
    THEN acc
    ELSE ScrapeGroup(ScrapeItem(acc, Head(items)), Tail(items))

\* line 113: `for group in thread_items`
RECURSIVE ScrapeGroups(_, _)
ScrapeGroups(acc, groups) ==
    IF groups = <<>>
    THEN acc
    ELSE ScrapeGroups(ScrapeGroup(acc, Head(groups).items), Tail(groups))

\* lines 104-112: one block; a block without both markers or with bad JSON is passed over
ScrapeBlock(acc, raw) ==
    IF ~Qualifies(raw) \/ ~Loads(raw)
    THEN acc
    ELSE ScrapeGroups(acc, raw.thread_items)

RECURSIVE ScrapeBlocks(_, _)
ScrapeBlocks(acc, datasets) ==
    IF datasets = <<>>
    THEN acc
    ELSE ScrapeBlocks(ScrapeBlock(acc, Head(datasets)), Tail(datasets))

\* line 114 raises TypeError, which scrape_thread_page does not catch, when a
\* block that is parsed holds a group that cannot be iterated
PageRaises(page_source) ==
    \E i \in 1..Len(page_source) :
        /\ Qualifies(page_source[i])
        /\ Loads(page_source[i])
        /\ \E g \in 1..Len(page_source[i].thread_items) :
               ~page_source[i].thread_items[g].iterable

\* lines 104-108: the blocks scrape_thread_page hands to json.loads, which are the
\* blocks with both markers up to the one whose group raises, if one does
JsonLoads(page_source) ==
    LET raising == { i \in 1..Len(page_source) : PageRaises(SubSeq(page_source, i, i)) }
        last == IF raising = {}
                THEN Len(page_source)
                ELSE CHOOSE i \in raising : \A j \in raising : i <= j
    IN { i \in 1..last : Qualifies(page_source[i]) }

\* scrape_thread_page, for a page source on which it returns
scrape_thread_page(page_source) ==
    ScrapeBlocks([posts |-> <<>>, seen_ids |-> {}], page_source).posts

(***************************************************************************)
(* main.py.  parse_thread projects like the one of en_thread_parser.py but *)
(* does not test the result: for a null item `result` is None and line 34, *)
(* result["videos"], raises TypeError.                                     *)
(***************************************************************************)
main_parse_thread(data) ==
    [id |-> Field(data, "id"),
     code |-> Field(data, "code"),
     username |-> Field(data, "username"),
     reply_count |-> main_reply_count(Field(data, "reply_count")),
     url |-> <<Str(Field(data, "username")), Str(Field(data, "code"))>>]

\* main.py lines 67-70: the two tests that pass a block over
MainQualifies(raw) == raw.structural /\ raw.content

\* main.py line 78, `for t in thread`
RECURSIVE ParseItems(_)
ParseItems(items) ==
    IF items = <<>>
    THEN <<>>
    ELSE <<main_parse_thread(Head(items))>> \o ParseItems(Tail(items))

\* main.py line 78, `for thread in thread_items`
RECURSIVE ParseGroups(_)
ParseGroups(groups) ==
    IF groups = <<>>
    THEN <<>>
    ELSE ParseItems(Head(groups).items) \o ParseGroups(Tail(groups))

\* main.py line 78 raises TypeError: a group that cannot be iterated, or a null item
ComprehensionRaises(raw) ==
    \E g \in 1..Len(raw.thread_items) :
        \/ ~raw.thread_items[g].iterable
        \/ \E t \in 1..Len(raw.thread_items[g].items) :
               raw.thread_items[g].items[t] = JNull

(***************************************************************************)
(* scrape_english_data                                                     *)
(***************************************************************************)
\* line 12; the model runs with a small cap
LIMIT_PER_KEYWORD == MaxLimit

\* line 47: (emotion, keyword) pairs, one keyword of each emotion
ALL_KEYWORDS ==
    << [emotion |-> "sad", keyword |-> "suicide"],
       [emotion |-> "neutral", keyword |-> "life"],
       [emotion |-> "happy", keyword |-> "joy"] >>

\* what link.get_attribute("href") gives: None, or a path whose last segment
\* is the post code, relative ("/@u/post/A") or absolute
Href(relative, code) == [kind |-> "href", relative |-> relative, last |-> code]

\* line 173: `not href`
NoHref(h) == h = None

\* line 177: href.split("/")[-1]
PostCode(h) == h.last

\* the lists page.locator('a[href*="/post/"]').all() may give in a round
LinkLists ==
    { <<>>,
      << Href(TRUE, "A") >>,
      << Href(TRUE, "A"), Href(FALSE, "B") >>,
      << None, Href(TRUE, "B"), Href(TRUE, "A") >> }

\* the id sets load_existing_ids may find in the CSV files of earlier runs
ExistingChoices == { {}, {"1"}, {"1", "A"} }

\* thread items of post pages
Post1 == Item(JStr("1"), JStr("A"), JStr("u"))
Post2 == Item(JStr("2"), JStr("B"), JStr("v"))
Post3 == Item(JStr("3"), JStr("C"), JStr("u"))
PostNoId == Item(JNull, JNull, JNull)

\* the page sources p2.content() may give for a post
PageSources ==
    { \* a root post and a reply
      << Block(TRUE, TRUE, TRUE, << Group(<<Post1>>), Group(<<Post2>>) >>) >>,
      \* another post, shown with the post it replies to
      << Block(TRUE, FALSE, TRUE, <<>>),
         Block(TRUE, TRUE, TRUE, << Group(<<Post2, Post3>>) >>) >>,
      \* a subtree without post data
      << Block(TRUE, TRUE, TRUE, << Group(<<PostNoId>>) >>) >>,
      \* thread_items that is no list
      << Block(TRUE, TRUE, TRUE, << NotIterable >>) >>,
      \* no thread data at all
      << Block(FALSE, TRUE, TRUE, <<>>) >> }

Heights == 0..MaxHeight

VARIABLES
    pc,            \* the statement scrape_english_data is at
    ki,            \* the index in ALL_KEYWORDS of the current keyword
    results,       \* line 150
    seen_ids,      \* line 150
    existing_ids,  \* line 152
    last_height,   \* line 167
    links,         \* the links of line 169 the for loop of line 171 has not reached yet
    href,          \* the link being fetched (line 172)
    open_details,  \* the post pages (p2 of line 185) that are open in the context
    exit_reason,   \* observation: why the while loop of the keyword ended
    stable_rounds, \* observation: consecutive rounds whose extent equalled the stored one
    last_fetch,    \* observation: the outcome of the latest try block of lines 184-203
    log,           \* observation: keyword-level events of the run, in order
    page_source,   \* the script blocks of a page given to scrape_thread_page or
                   \* scrape_thread on its own
    posts,         \* what the call of scrape_thread_page returned
    page_pc,       \* where that call is at
    page_loaded,   \* observation: the blocks that call gave to json.loads
    bi,            \* scrape_thread: the blocks the loop of main.py line 65 has passed
    thread_pc,     \* scrape_thread: where the call is at, or how it ended
    thread_loaded, \* observation: the blocks scrape_thread gave to json.loads
    thread_result, \* what scrape_thread returned
    rc_in,         \* a raw reply_count given to both parse_thread
    rc_en,         \* what en_thread_parser.py's parse_thread makes of it
    rc_main,       \* what main.py's parse_thread makes of it
    rc_pc          \* which of the two have run

vars == <<pc, ki, results, seen_ids, existing_ids, last_height, links, href,
          open_details, exit_reason, stable_rounds, last_fetch, log, page_source, posts, page_pc,
          page_loaded, bi, thread_pc, thread_loaded, thread_result,
          rc_in, rc_en, rc_main, rc_pc>>

threadVars == <<bi, thread_pc, thread_loaded, thread_result>>
replyVars == <<rc_in, rc_en, rc_main, rc_pc>>
pageVars == <<page_source, posts, page_pc, page_loaded, threadVars, replyVars>>

\* scrape_thread is not called
ThreadIdle ==
    /\ bi = 0
    /\ thread_pc = "idle"
    /\ thread_loaded = {}
    /\ thread_result = None

\* no reply_count is being converted
ReplyIdle ==
    /\ rc_in = JNull
    /\ rc_en = JNull
    /\ rc_main = JNull
    /\ rc_pc = "idle"
observed == <<exit_reason, stable_rounds, last_fetch, log>>

keyword == ALL_KEYWORDS[ki].keyword
emotion == ALL_KEYWORDS[ki].emotion

Event(ev, kw) == [ev |-> ev, kw |-> kw]

Init ==
    /\ pc = "for_keyword"
    /\ ki = 1
    /\ results = <<>>
    /\ seen_ids = {}
    /\ existing_ids = {}
    /\ last_height = 0
    /\ links = <<>>
    /\ href = None
    /\ open_details = 0
    /\ exit_reason = "none"
    /\ stable_rounds = 0
    /\ last_fetch = "none"
    /\ log = <<>>
    /\ page_source = <<>>
    /\ posts = <<>>
    /\ page_pc = "idle"
    /\ page_loaded = {}
    /\ ThreadIdle
    /\ ReplyIdle

\* a faulty variant of KeywordStart: seen_ids is shared by the keywords
KeywordStart_shared_seen ==
    /\ pc = "for_keyword"
    /\ ki <= Len(ALL_KEYWORDS)
    /\ results' = <<>>
    /\ \E e \in ExistingChoices : existing_ids' = e
    /\ exit_reason' = "none"
    /\ stable_rounds' = 0
    /\ last_fetch' = "none"
    /\ log' = Append(log, Event("load", keyword))
    /\ pc' = "goto"
    /\ UNCHANGED <<ki, seen_ids, last_height, links, href, open_details, pageVars>>

\* lines 149-157: the next keyword; fresh results and seen_ids, the ids of earlier runs
KeywordStart ==
    /\ pc = "for_keyword"
    /\ ki <= Len(ALL_KEYWORDS)
    /\ results' = <<>>
    /\ seen_ids' = {}
    /\ \E e \in ExistingChoices : existing_ids' = e
    /\ exit_reason' = "none"
    /\ stable_rounds' = 0
    /\ last_fetch' = "none"
    /\ log' = Append(log, Event("load", keyword))
    /\ pc' = "goto"
    /\ UNCHANGED <<ki, last_height, links, href, open_details, pageVars>>

\* lines 158-161, 167: the search page opens
GotoOk ==
    /\ pc = "goto"
    /\ last_height' = 0
    /\ log' = Append(log, Event("open", keyword))
    /\ pc' = "while"
    /\ UNCHANGED <<ki, results, seen_ids, existing_ids, links, href,
                   exit_reason, stable_rounds, last_fetch, open_details, pageVars>>

\* a faulty variant of GotoFail: the `continue` of line 165 is lost
GotoFail_fallthrough ==
    /\ pc = "goto"
    /\ log' = Append(log, Event("skip", keyword))
    /\ pc' = "while"
    /\ UNCHANGED <<ki, results, seen_ids, existing_ids, last_height, links, href,
                   exit_reason, stable_rounds, last_fetch, open_details, pageVars>>

\* lines 162-165: page.goto raises; the page is closed and the keyword skipped
GotoFail ==
    /\ pc = "goto"
    /\ log' = Append(log, Event("skip", keyword))
    /\ ki' = ki + 1
    /\ pc' = "for_keyword"
    /\ UNCHANGED <<results, seen_ids, existing_ids, last_height, links, href,
                   exit_reason, stable_rounds, last_fetch, open_details, pageVars>>

\* a faulty variant of CapReached: the test compares with the wrong side of the cap
CapReached_off(n) == n > LIMIT_PER_KEYWORD + 1

\* lines 168 and 204: len(results) >= LIMIT_PER_KEYWORD
CapReached(n) == n >= LIMIT_PER_KEYWORD

\* line 168: the while condition
WhileEnter ==
    /\ pc = "while"
    /\ ~CapReached(Len(results))
    /\ pc' = "links"
    /\ UNCHANGED <<ki, results, seen_ids, existing_ids, last_height, links, href,
                   observed, open_details, pageVars>>

WhileExit ==
    /\ pc = "while"
    /\ CapReached(Len(results))
    /\ exit_reason' = "cap"
    /\ pc' = "save"
    /\ UNCHANGED <<ki, results, seen_ids, existing_ids, last_height, links, href,
                   stable_rounds, last_fetch, log, open_details, pageVars>>

\* line 169: the links on the page now
ScanLinks ==
    /\ pc = "links"
    /\ \E l \in LinkLists : links' = l
    /\ pc' = "for_link"
    /\ UNCHANGED <<ki, results, seen_ids, existing_ids, last_height, href,
                   observed, open_details, pageVars>>

\* lines 172-174: a link without href is passed over
LinkNoHref ==
    /\ pc = "for_link"
    /\ links # <<>>
    /\ NoHref(Head(links))
    /\ links' = Tail(links)
    /\ UNCHANGED <<pc, ki, results, seen_ids, existing_ids, last_height, href,
                   observed, open_details, pageVars>>

\* line 178
AlreadySeen(post_code) == post_code \in seen_ids \/ post_code \in existing_ids

\* lines 177-180: a post code seen in this run, or found among the ids of earlier runs
LinkSeen ==
    /\ pc = "for_link"
    /\ links # <<>>
    /\ ~NoHref(Head(links))
    /\ AlreadySeen(PostCode(Head(links)))
    /\ links' = Tail(links)
    /\ UNCHANGED <<pc, ki, results, seen_ids, existing_ids, last_height, href,
                   observed, open_details, pageVars>>

\* a faulty variant of LinkNew: the post code is not marked seen
LinkNew_unmarked ==
    /\ pc = "for_link"
    /\ links # <<>>
    /\ ~NoHref(Head(links))
    /\ ~AlreadySeen(PostCode(Head(links)))
    /\ href' = [Head(links) EXCEPT !.relative = FALSE]
    /\ links' = Tail(links)
    /\ pc' = "fetch"
    /\ UNCHANGED <<ki, results, seen_ids, existing_ids, last_height, observed, open_details, pageVars>>

\* lines 175-182: a new post code is marked seen before its page is fetched
LinkNew ==
    /\ pc = "for_link"
    /\ links # <<>>
    /\ ~NoHref(Head(links))
    /\ ~AlreadySeen(PostCode(Head(links)))
    /\ seen_ids' = seen_ids \cup {PostCode(Head(links))}
    /\ href' = [Head(links) EXCEPT !.relative = FALSE]
    /\ links' = Tail(links)
    /\ pc' = "fetch"
    /\ UNCHANGED <<ki, results, existing_ids, last_height, observed, open_details, pageVars>>

\* line 171: the for loop is through the links
LinksDone ==
    /\ pc = "for_link"
    /\ links = <<>>
    /\ pc' = "scroll"
    /\ UNCHANGED <<ki, results, seen_ids, existing_ids, last_height, links, href,
                   observed, open_details, pageVars>>

\* lines 197-199: the tags of the keyword
Tag(p) ==
    [id |-> p.id, code |-> p.code, username |-> p.username, url |-> p.url,
     reply_count |-> p.reply_count, repost_count |-> p.repost_count,
     keyword |-> keyword, emotion |-> emotion, language_context |-> "english"]

\* a faulty variant of InExisting: the test against the earlier runs is lost
InExisting_never(pid) == FALSE

\* line 194: `pid in existing_ids`
InExisting(pid) == pid \in existing_ids

\* lines 192-201: the posts of one page, but those whose id an earlier run saved
RECURSIVE AppendPosts(_, _)
AppendPosts(res, ps) ==
    IF ps = <<>>
    THEN res
    ELSE AppendPosts(IF InExisting(Str(Head(ps).id))
                     THEN res
                     ELSE Append(res, Tag(Head(ps))),
                     Tail(ps))

\* lines 184-201: the post page opens, is scraped and is closed (line 190)
FetchOk ==
    /\ pc = "fetch"
    /\ \E src \in PageSources :
          /\ ~PageRaises(src)
          /\ results' = AppendPosts(results, scrape_thread_page(src))
    /\ last_fetch' = "ok"
    /\ pc' = "cap_check"
    /\ UNCHANGED <<ki, seen_ids, existing_ids, last_height, links, href,
                   exit_reason, stable_rounds, log, open_details, pageVars>>

\* a faulty variant of FetchFail: the error of one post ends the loop of the keyword
FetchFail_abort ==
    /\ pc = "fetch"
    /\ last_fetch' = "error"
    /\ \/ open_details' = open_details
       \/ /\ open_details < MaxOpenPages
          /\ open_details' = open_details + 1
    /\ pc' = "save"
    /\ UNCHANGED <<ki, results, seen_ids, existing_ids, last_height, links, href,
                   exit_reason, stable_rounds, log, pageVars>>

\* lines 185-189, 202-203: new_page raises and there is no page, or goto,
\* wait_for_selector or scrape_thread_page (on what p2.content() gave) raises and
\* the p2.close() of line 190 is not reached; logged, nothing appended
FetchFail ==
    /\ pc = "fetch"
    /\ last_fetch' = "error"
    /\ \/ open_details' = open_details
       \/ /\ open_details < MaxOpenPages
          /\ open_details' = open_details + 1
    /\ pc' = "cap_check"
    /\ UNCHANGED <<ki, results, seen_ids, existing_ids, last_height, links, href,
                   exit_reason, stable_rounds, log, pageVars>>

\* lines 204-206: the cap is reached; `break` leaves the for loop of line 171
CapBreak ==
    /\ pc = "cap_check"
    /\ CapReached(Len(results))
    /\ pc' = "scroll"
    /\ UNCHANGED <<ki, results, seen_ids, existing_ids, last_height, links, href,
                   observed, open_details, pageVars>>

\* line 204 is false: on to the next link
CapContinue ==
    /\ pc = "cap_check"
    /\ ~CapReached(Len(results))
    /\ pc' = "for_link"
    /\ UNCHANGED <<ki, results, seen_ids, existing_ids, last_height, links, href,
                   observed, open_details, pageVars>>

\* lines 208-209: page.mouse.wheel and the pause
Scroll ==
    /\ pc = "scroll"
    /\ pc' = "evaluate"
    /\ UNCHANGED <<ki, results, seen_ids, existing_ids, last_height, links, href,
                   observed, open_details, pageVars>>

\* a faulty variant of NoGrowth: a page that shrank counts as one that did not grow
NoGrowth_shrunk(new_height, last) == new_height <= last

\* line 216
NoGrowth(new_height, last) == new_height = last

\* lines 211, 216-218: the height is the stored one; `break` leaves the while loop
EvaluateSame ==
    /\ pc = "evaluate"
    /\ \E new_height \in Heights :
          /\ NoGrowth(new_height, last_height)
          /\ stable_rounds' = IF new_height = last_height THEN stable_rounds + 1 ELSE 0
    /\ exit_reason' = "no_growth"
    /\ pc' = "save"
    /\ UNCHANGED <<ki, results, seen_ids, existing_ids, last_height, links, href,
                   last_fetch, log, open_details, pageVars>>

\* lines 211, 216, 219: another height is stored and the while loop goes on
EvaluateGrown ==
    /\ pc = "evaluate"
    /\ \E new_height \in Heights :
          /\ ~NoGrowth(new_height, last_height)
          /\ stable_rounds' = IF new_height = last_height THEN stable_rounds + 1 ELSE 0
          /\ last_height' = new_height
    /\ pc' = "while"
    /\ UNCHANGED <<ki, results, seen_ids, existing_ids, links, href,
                   exit_reason, last_fetch, log, open_details, pageVars>>

\* a faulty variant of AfterExtentError: the loop goes on after a failed read
AfterExtentError_goes_on == "while"

\* line 215: `break` leaves the while loop
AfterExtentError == "save"

\* lines 213-215: page.evaluate raises
EvaluateFail ==
    /\ pc = "evaluate"
    /\ exit_reason' = "extent_error"
    /\ pc' = AfterExtentError
    /\ UNCHANGED <<ki, results, seen_ids, existing_ids, last_height, links, href,
                   stable_rounds, last_fetch, log, open_details, pageVars>>

\* a faulty variant of Save: an empty batch is not written
Save_not_when_empty ==
    /\ pc = "save"
    /\ log' = IF results = <<>>
              THEN log
              ELSE Append(log, [ev |-> "save", kw |-> keyword, n |-> Len(results)])
    /\ ki' = ki + 1
    /\ pc' = "for_keyword"
    /\ UNCHANGED <<results, seen_ids, existing_ids, last_height, links, href,
                   exit_reason, stable_rounds, last_fetch, open_details, pageVars>>

\* lines 221-223 (save_results, lines 127-133): one CSV file with the batch
Save ==
    /\ pc = "save"
    /\ log' = Append(log, [ev |-> "save", kw |-> keyword, n |-> Len(results)])
    /\ ki' = ki + 1
    /\ pc' = "for_keyword"
    /\ UNCHANGED <<results, seen_ids, existing_ids, last_height, links, href,
                   exit_reason, stable_rounds, last_fetch, open_details, pageVars>>

\* lines 225-228: ALL_KEYWORDS is through; browser.close() closes every page
Finish ==
    /\ pc = "for_keyword"
    /\ ki > Len(ALL_KEYWORDS)
    /\ pc' = "done"
    /\ open_details' = 0
    /\ UNCHANGED <<ki, results, seen_ids, existing_ids, last_height, links, href,
                   observed, pageVars>>

Next ==
    \/ KeywordStart
    \/ GotoOk
    \/ GotoFail
    \/ WhileEnter
    \/ WhileExit
    \/ ScanLinks
    \/ LinkNoHref
    \/ LinkSeen
    \/ LinkNew
    \/ LinksDone
    \/ FetchOk
    \/ FetchFail
    \/ CapBreak
    \/ CapContinue
    \/ Scroll
    \/ EvaluateSame
    \/ EvaluateGrown
    \/ EvaluateFail
    \/ Save
    \/ Finish

Spec == Init /\ [][Next]_vars

\* the program is sequential and every call of the renderer returns or raises, so
\* the program goes on as long as it has a next statement
FairSpec == Spec /\ WF_vars(Next)

(***************************************************************************)
(* scrape_thread_page on its own: one call on any page source of at most   *)
(* MaxBlocks script blocks.                                                *)
(***************************************************************************)
\* the same id as Post1's, as a JSON number
PostInt1 == Item(JInt("1"), JStr("D"), JStr("w"))

PageBlocks ==
    { Block(TRUE, TRUE, TRUE, << Group(<<Post1, Post2>>) >>),
      Block(TRUE, TRUE, TRUE, << Group(<<Post2>>), Group(<<Post1>>) >>),
      Block(TRUE, TRUE, TRUE, << Group(<<Post3, Post3>>) >>),
      Block(TRUE, TRUE, TRUE, << Group(<<PostInt1>>) >>),
      Block(TRUE, TRUE, TRUE, << Group(<<PostNoId, JNull>>) >>),
      Block(TRUE, TRUE, TRUE, << NotIterable >>),
      Block(TRUE, TRUE, TRUE, << Group(<<>>) >>),
      Block(TRUE, TRUE, TRUE, <<>>),
      Block(TRUE, TRUE, FALSE, <<>>),
      Block(TRUE, FALSE, TRUE, <<>>),
      Block(FALSE, TRUE, TRUE, << Group(<<Post3>>) >>) }

AllPageSources == UNION { [1..n -> PageBlocks] : n \in 0..MaxBlocks }

\* scrape_english_data is not running
MainIdle ==
    /\ pc = "for_keyword"
    /\ ki = 1
    /\ results = <<>>
    /\ seen_ids = {}
    /\ existing_ids = {}
    /\ last_height = 0
    /\ links = <<>>
    /\ href = None
    /\ open_details = 0
    /\ exit_reason = "none"
    /\ stable_rounds = 0
    /\ last_fetch = "none"
    /\ log = <<>>

InitPage ==
    /\ MainIdle
    /\ page_source \in AllPageSources
    /\ posts = <<>>
    /\ page_pc = "call"
    /\ page_loaded = {}
    /\ ThreadIdle
    /\ ReplyIdle

mainVars == <<pc, ki, results, seen_ids, existing_ids, last_height, links, href,
              open_details,
              exit_reason, stable_rounds, last_fetch, log>>

\* lines 97-125: the call returns the posts
PageReturn ==
    /\ page_pc = "call"
    /\ ~PageRaises(page_source)
    /\ posts' = scrape_thread_page(page_source)
    /\ page_loaded' = JsonLoads(page_source)
    /\ page_pc' = "returned"
    /\ UNCHANGED <<page_source, mainVars, threadVars, replyVars>>

\* line 114: the call ends with TypeError
PageRaise ==
    /\ page_pc = "call"
    /\ PageRaises(page_source)
    /\ page_loaded' = JsonLoads(page_source)
    /\ page_pc' = "raised"
    /\ UNCHANGED <<page_source, posts, mainVars, threadVars, replyVars>>

NextPage ==
    \/ PageReturn
    \/ PageRaise

SpecPage == InitPage /\ [][NextPage]_vars

(***************************************************************************)
(* scrape_thread (main.py) on its own, next to scrape_thread_page on the   *)
(* same page source: one step for each block of the loop of line 65.       *)
(***************************************************************************)
\* the block the loop is at
dataset == page_source[bi + 1]

\* main.py lines 67-70: a block without both markers is passed over
ThreadSkip ==
    /\ thread_pc = "loop"
    /\ bi < Len(page_source)
    /\ ~MainQualifies(dataset)
    /\ bi' = bi + 1
    /\ UNCHANGED <<thread_pc, thread_loaded, thread_result,
                   page_source, posts, page_pc, page_loaded, mainVars, replyVars>>

\* main.py line 71: json.loads raises JSONDecodeError and nothing catches it
ThreadJsonError ==
    /\ thread_pc = "loop"
    /\ bi < Len(page_source)
    /\ MainQualifies(dataset)
    /\ ~dataset.valid
    /\ thread_loaded' = thread_loaded \cup {bi + 1}
    /\ thread_pc' = "json_error"
    /\ UNCHANGED <<bi, thread_result,
                   page_source, posts, page_pc, page_loaded, mainVars, replyVars>>

\* main.py lines 74-76: nested_lookup finds no thread_items key
ThreadNoItems ==
    /\ thread_pc = "loop"
    /\ bi < Len(page_source)
    /\ MainQualifies(dataset)
    /\ dataset.valid
    /\ dataset.thread_items = <<>>
    /\ thread_loaded' = thread_loaded \cup {bi + 1}
    /\ bi' = bi + 1
    /\ UNCHANGED <<thread_pc, thread_result,
                   page_source, posts, page_pc, page_loaded, mainVars, replyVars>>

\* main.py line 78: the comprehension raises TypeError
ThreadTypeError ==
    /\ thread_pc = "loop"
    /\ bi < Len(page_source)
    /\ MainQualifies(dataset)
    /\ dataset.valid
    /\ dataset.thread_items # <<>>
    /\ ComprehensionRaises(dataset)
    /\ thread_loaded' = thread_loaded \cup {bi + 1}
    /\ thread_pc' = "type_error"
    /\ UNCHANGED <<bi, thread_result,
                   page_source, posts, page_pc, page_loaded, mainVars, replyVars>>

\* main.py line 81: threads is empty and threads[0] raises IndexError
ThreadIndexError ==
    /\ thread_pc = "loop"
    /\ bi < Len(page_source)
    /\ MainQualifies(dataset)
    /\ dataset.valid
    /\ dataset.thread_items # <<>>
    /\ ~ComprehensionRaises(dataset)
    /\ ParseGroups(dataset.thread_items) = <<>>
    /\ thread_loaded' = thread_loaded \cup {bi + 1}
    /\ thread_pc' = "index_error"
    /\ UNCHANGED <<bi, thread_result,
                   page_source, posts, page_pc, page_loaded, mainVars, replyVars>>

\* main.py lines 78-84: the call returns from the first block that has thread items
ThreadReturn ==
    /\ thread_pc = "loop"
    /\ bi < Len(page_source)
    /\ MainQualifies(dataset)
    /\ dataset.valid
    /\ dataset.thread_items # <<>>
    /\ ~ComprehensionRaises(dataset)
    /\ LET threads == ParseGroups(dataset.thread_items) IN
       /\ threads # <<>>
       /\ thread_result' = [thread |-> Head(threads), replies |-> Tail(threads)]
    /\ thread_loaded' = thread_loaded \cup {bi + 1}
    /\ thread_pc' = "returned"
    /\ UNCHANGED <<bi, page_source, posts, page_pc, page_loaded, mainVars, replyVars>>

\* main.py line 85: no block had thread items and the call raises ValueError
ThreadNotFound ==
    /\ thread_pc = "loop"
    /\ bi = Len(page_source)
    /\ thread_pc' = "not_found"
    /\ UNCHANGED <<bi, thread_loaded, thread_result,
                   page_source, posts, page_pc, page_loaded, mainVars, replyVars>>

InitExtract ==
    /\ MainIdle
    /\ page_source \in AllPageSources
    /\ posts = <<>>
    /\ page_pc = "call"
    /\ page_loaded = {}
    /\ bi = 0
    /\ thread_pc = "loop"
    /\ thread_loaded = {}
    /\ thread_result = None
    /\ ReplyIdle

NextExtract ==
    \/ PageReturn
    \/ PageRaise
    \/ ThreadSkip
    \/ ThreadJsonError
    \/ ThreadNoItems
    \/ ThreadTypeError
    \/ ThreadIndexError
    \/ ThreadReturn
    \/ ThreadNotFound

SpecExtract == InitExtract /\ [][NextExtract]_vars

(***************************************************************************)
(* The reply_count of one thread item through both parse_thread: null, an  *)
(* integer, or a string of at most MaxChars characters.                    *)
(***************************************************************************)
Chars == {"1", "2", "a", " "}

Strings == UNION { [1..n -> Chars] : n \in 0..MaxChars }

ReplyCounts ==
    {JNull} \cup { RcInt(n) : n \in {0, 5, 42} } \cup { RcStr(chars) : chars \in Strings }

InitReply ==
    /\ MainIdle
    /\ page_source = <<>>
    /\ posts = <<>>
    /\ page_pc = "idle"
    /\ page_loaded = {}
    /\ ThreadIdle
    /\ rc_in \in ReplyCounts
    /\ rc_en = JNull
    /\ rc_main = JNull
    /\ rc_pc = "call"

\* en_thread_parser.py lines 85-91
EnParse ==
    /\ rc_pc = "call"
    /\ rc_en' = en_reply_count(rc_in)
    /\ rc_pc' = "en_done"
    /\ UNCHANGED <<rc_in, rc_main, page_source, posts, page_pc, page_loaded,
                   threadVars, mainVars>>

\* main.py lines 35-42
MainParse ==
    /\ rc_pc = "en_done"
    /\ rc_main' = main_reply_count(rc_in)
    /\ rc_pc' = "both_done"
    /\ UNCHANGED <<rc_in, rc_en, page_source, posts, page_pc, page_loaded,
                   threadVars, mainVars>>

NextReply ==
    \/ EnParse
    \/ MainParse

SpecReply == InitReply /\ [][NextReply]_vars

(***************************************************************************)
(* The claims.                                                             *)
(***************************************************************************)
\* the statements of the while loop of lines 168-219
LoopPositions ==
    {"while", "links", "for_link", "fetch", "cap_check", "scroll", "evaluate"}

\* the statements after the while loop of the current keyword has ended
AfterLoop == {"save", "for_keyword", "done"}

C2_NoDuplicateIdInResults ==
    \A i, j \in 1..Len(results) :
        (i # j /\ results[i].id.kind # "null") => results[i].id # results[j].id

\* the ids of the records the page source projects: every thread item of every
\* block that is parsed, but the null items
ProjectedAt(src) ==
    UNION { UNION { { <<b, g, t>> :
                        t \in { u \in 1..Len(src[b].thread_items[g].items) :
                                  Truthy(parse_thread(src[b].thread_items[g].items[u])) } } :
                    g \in 1..Len(src[b].thread_items) } :
            b \in { c \in 1..Len(src) : Qualifies(src[c]) /\ Loads(src[c]) } }

ProjectedIds(src) ==
    { parse_thread(src[x[1]].thread_items[x[2]].items[x[3]]).id : x \in ProjectedAt(src) }

\* C3, as claimed: the list scrape_thread_page returns holds no id twice and its ids
\* are the distinct ids of the projected records.
C3_OnePerDistinctId ==
    page_pc = "returned" =>
        /\ \A i, j \in 1..Len(posts) : i # j => posts[i].id # posts[j].id
        /\ { posts[i].id : i \in 1..Len(posts) } = ProjectedIds(page_source)

\* C3, as amended: the same of the string forms of the ids, str(id), which is what
\* the function compares: ids that print alike count as one id.
C3_OnePerDistinctIdString ==
    page_pc = "returned" =>
        /\ \A i, j \in 1..Len(posts) : i # j => Str(posts[i].id) # Str(posts[j].id)
        /\ { Str(posts[i].id) : i \in 1..Len(posts) }
             = { Str(id) : id \in ProjectedIds(page_source) }

\* C3's case: a page with more projected records than distinct ids, of which
\* several were returned
C3_Witness ==
    /\ page_pc = "returned"
    /\ Len(posts) >= 2
    /\ Cardinality(ProjectedAt(page_source)) > Len(posts)

\* C4, as claimed: no accepted record is without an id.
C4_NoRecordWithoutId ==
    \A i \in 1..Len(results) :
        results[i].id.kind # "null" /\ Str(results[i].id) # ""

\* the most posts one post page can give
MaxOf(S) == IF S = {} THEN 0 ELSE CHOOSE y \in S : \A z \in S : z <= y

MaxPagePosts ==
    MaxOf({ Len(scrape_thread_page(src)) : src \in { q \in PageSources : ~PageRaises(q) } })

\* C5: with the cap reached no link is scanned and no post page fetched, so the batch
\* is never longer than the cap less one plus the posts of one post page.
C5_CapBoundsBatch ==
    /\ pc \in {"links", "for_link", "fetch"} => Len(results) < LIMIT_PER_KEYWORD
    /\ Len(results) <= LIMIT_PER_KEYWORD - 1 + MaxPagePosts

\* C5's case: the last post page took the batch beyond the cap
C5_Witness ==
    /\ Len(results) > LIMIT_PER_KEYWORD
    /\ last_fetch = "ok"
    /\ pc = "save"

\* C6, as claimed: with the cap reached the program is at no scroll and at no
\* extent read.
C6_NoScrollAfterCap ==
    Len(results) >= LIMIT_PER_KEYWORD => pc \notin {"scroll", "evaluate"}

\* C7: from a failed extent read until the next keyword the program is at no
\* statement of the loop: no scan, fetch, scroll or second read.
C7_ExtentErrorEndsLoop ==
    exit_reason = "extent_error" => pc \in AfterLoop

\* C7's case: the read failed in a round after the first, with posts collected
C7_Witness ==
    /\ exit_reason = "extent_error"
    /\ pc = "save"
    /\ last_height > 0
    /\ results # <<>>

\* C8: a failed post leaves the batch and the remaining links as they are, and the
\* for loop goes on with the next link.
C8_PostErrorSkipsItem ==
    [][ /\ (pc = "fetch" /\ last_fetch' = "error") =>
              (results' = results /\ links' = links /\ pc' = "cap_check")
        /\ (pc = "cap_check" /\ last_fetch = "error") =>
              (results' = results /\ links' = links /\ pc' = "for_link") ]_vars

\* C8's case: after a failed post, with posts in the batch, the loop is at the
\* links that remain
C8_Witness ==
    /\ last_fetch = "error"
    /\ pc = "for_link"
    /\ links # <<>>
    /\ results # <<>>

\* the events of the log that are about keyword k, and their names
EventsOf(k) == SelectSeq(log, LAMBDA e : e.kw = k)
NamesOf(k) == [i \in 1..Len(EventsOf(k)) |-> EventsOf(k)[i].ev]

Keywords == { ALL_KEYWORDS[i].keyword : i \in 1..Len(ALL_KEYWORDS) }

\* C9: a keyword whose page did not open has no event after the failure (no retry, no
\* save) and the program goes on to the keyword after it: the program is in the loop
\* only for a keyword whose page opened, and at the end every keyword of ALL_KEYWORDS
\* has been tried, once and in list order.
C9_FailedKeywordSkipped ==
    /\ \A i \in 1..Len(log) :
          log[i].ev = "skip" =>
              /\ i > 1 /\ log[i - 1] = Event("load", log[i].kw)
              /\ \A j \in 1..Len(log) : (j # i /\ log[j].kw = log[i].kw) => j = i - 1
              /\ IF i = Len(log)
                 THEN pc \in {"for_keyword", "done"}
                 ELSE log[i + 1].ev = "load"
    /\ pc \in LoopPositions \cup {"save"} =>
          (log # <<>> /\ log[Len(log)] = Event("open", keyword))
    /\ pc = "done" =>
          SelectSeq(log, LAMBDA e : e.ev = "load")
              = [i \in 1..Len(ALL_KEYWORDS) |-> Event("load", ALL_KEYWORDS[i].keyword)]

\* C9's case: the run is through, the first keyword was skipped and a later one scraped
C9_Witness ==
    /\ pc = "done"
    /\ log[2] = Event("skip", ALL_KEYWORDS[1].keyword)
    /\ \E i \in 1..Len(log) : log[i].ev = "save" /\ log[i].n > 0

\* the number of batches saved for keyword k
Saves(k) == Len(SelectSeq(log, LAMBDA e : e.kw = k /\ e.ev = "save"))

\* C10, as claimed: at the end of the run the batch of every keyword of ALL_KEYWORDS
\* has been persisted exactly once.
C10_EveryKeywordSavedOnce ==
    pc = "done" => \A k \in Keywords : Saves(k) = 1

\* the events of a keyword that is through
DoneNames == { <<"load", "open", "save">>, <<"load", "skip">> }

\* C10, as amended: the events of a keyword are the load of the ids of earlier runs,
\* then either the failed opening alone (nothing is persisted for that keyword) or
\* the opening, the loop until the cap, no growth or a failed extent read ends it, and
\* one save of the batch as it is then, empty or not; the keywords come in list order
\* and one begins only when the one before is through.
C10_KeywordOrder ==
    /\ \A i \in 1..Len(ALL_KEYWORDS) :
          LET k == ALL_KEYWORDS[i].keyword IN
          /\ i < ki => NamesOf(k) \in DoneNames
          /\ i > ki => NamesOf(k) = <<>>
          /\ (i = ki /\ pc = "for_keyword") => NamesOf(k) = <<>>
          /\ (i = ki /\ pc = "goto") => NamesOf(k) = <<"load">>
          /\ (i = ki /\ pc \in LoopPositions \cup {"save"}) => NamesOf(k) = <<"load", "open">>
    /\ \A i, j \in 1..Len(log) :
          i < j => \E a, b \in 1..Len(ALL_KEYWORDS) :
                       /\ a <= b
                       /\ log[i].kw = ALL_KEYWORDS[a].keyword
                       /\ log[j].kw = ALL_KEYWORDS[b].keyword
    /\ (pc = "for_keyword" /\ log # <<>> /\ log[Len(log)].ev = "save") =>
          log[Len(log)].n = Len(results)
    /\ pc = "save" => exit_reason \in {"cap", "no_growth", "extent_error"}
    /\ pc = "done" => ki = Len(ALL_KEYWORDS) + 1

\* C10's case: the run is through with an empty batch saved, a batch with posts
\* saved after a post failed, and a keyword skipped
C10_Witness ==
    /\ pc = "done"
    /\ \E i \in 1..Len(log) : log[i].ev = "save" /\ log[i].n = 0
    /\ \E i \in 1..Len(log) : log[i].ev = "skip"
    /\ log[Len(log)].ev = "save" /\ log[Len(log)].n > 0 /\ last_fetch = "error"

\* C11: no record of the batch has an id (as a string) that load_existing_ids
\* returned for the keyword.
C11_NoPersistedIdInResults ==
    \A i \in 1..Len(results) : Str(results[i].id) \notin existing_ids

\* C11's case: a post page gave a post an earlier run saved and one it did not; only
\* the second is in the batch
C11_Witness ==
    /\ existing_ids # {}
    /\ last_fetch = "ok"
    /\ Len(results) = 1
    /\ results[1].id = JStr("2")

\* whether sequence s begins with sequence t
StartsWith(s, t) == Len(t) <= Len(s) /\ SubSeq(s, 1, Len(t)) = t

\* C16: when the loop of a keyword begins results and seen_ids are empty and
\* last_height is 0, and during the loop of one keyword results and seen_ids only grow.
C16_StateScopedToKeyword ==
    [][ /\ (pc = "goto" /\ pc' = "while") =>
              (results' = <<>> /\ seen_ids' = {} /\ last_height' = 0)
        /\ (pc \in LoopPositions \cup {"save"}) =>
              (seen_ids \subseteq seen_ids' /\ StartsWith(results', results)) ]_vars

\* C16's case: the loop of the second keyword begins empty after the first keyword
\* saved a batch with posts
C16_Witness ==
    /\ ki = 2
    /\ pc = "while"
    /\ results = <<>> /\ seen_ids = {} /\ last_height = 0
    /\ Len(log) = 5 /\ log[3].ev = "save" /\ log[3].n > 0

\* C19: a post page is fetched only for a post code that was not marked seen, the
\* code is marked as the fetch begins, and a mark stays for the rest of the keyword:
\* no code is fetched twice in a keyword, whatever the first fetch gave.
C19_CodeFetchedOnce ==
    [][ /\ (pc # "fetch" /\ pc' = "fetch") =>
              (PostCode(href') \notin seen_ids /\ PostCode(href') \in seen_ids')
        /\ (pc \in LoopPositions \cup {"save"}) => seen_ids \subseteq seen_ids' ]_vars

\* C19's case: in a later round the link of a post whose fetch failed is on the page
\* again, and is about to be passed over
C19_Witness ==
    /\ pc = "for_link"
    /\ last_height > 0
    /\ last_fetch = "error"
    /\ Cardinality(seen_ids) = 1
    /\ links # <<>>
    /\ ~NoHref(Head(links))
    /\ PostCode(Head(links)) \in seen_ids

\* C18, as claimed: between two links no post page is open: each one was closed
\* before the next link is processed, whether its fetch failed or not.
C18_NoDetailPageLeftOpen ==
    open_details = 0

\* the posts of the site, and the id of the post a link with a post code leads to
SitePosts == {Post1, Post2, Post3}
PostIdOf(code) == Str((CHOOSE p \in SitePosts : Str(p.code) = code).id)

\* C20, as claimed: no post page is opened for a link whose post has its id among
\* the ids load_existing_ids returned.
C20_PersistedPostNotOpened ==
    pc = "fetch" => PostIdOf(PostCode(href)) \notin existing_ids

\* C17: the run ends, with the loop of every keyword ended, unless the measured
\* extent changes again and again for ever.
C17_RunEndsUnlessExtentKeepsChanging ==
    \/ <>(pc = "done")
    \/ []<><<pc = "evaluate" /\ last_height' # last_height>>_vars

\* C17's case: the run has ended after a loop that went through several rounds and
\* ended by no growth, one that ended by the cap and one that ended by a failed read
C17_Witness ==
    /\ pc = "done"
    /\ exit_reason \in {"no_growth", "cap", "extent_error"}
    /\ last_height > 0
    /\ Saves(ALL_KEYWORDS[1].keyword) = 1

\* a block whose text holds both markers, and the thread items of such blocks
BothMarkers(raw) == raw.structural /\ raw.content

MarkedItems(src) ==
    UNION { UNION { { src[b].thread_items[g].items[t] :
                        t \in 1..Len(src[b].thread_items[g].items) } :
                    g \in 1..Len(src[b].thread_items) } :
            b \in { c \in 1..Len(src) : BothMarkers(src[c]) } }

\* the records scrape_thread returned
ThreadRecords ==
    {thread_result.thread} \cup
        { thread_result.replies[i] : i \in 1..Len(thread_result.replies) }

\* C12: scrape_thread_page and scrape_thread give json.loads only blocks that hold
\* both markers, and every record they return is the projection of a thread item of
\* such a block.
C12_OnlyBothMarkerBlocksParsed ==
    /\ \A i \in page_loaded \cup thread_loaded : BothMarkers(page_source[i])
    /\ \A k \in 1..Len(posts) :
           \E t \in MarkedItems(page_source) : posts[k] = parse_thread(t)
    /\ thread_pc = "returned" =>
           \A r \in ThreadRecords :
               \E t \in MarkedItems(page_source) : r = main_parse_thread(t)

\* C12's case: both functions returned records from a page whose first block holds
\* thread items and one marker only, and neither parsed that block
C12_Witness ==
    /\ page_pc = "returned"
    /\ thread_pc = "returned"
    /\ Len(page_source) = 2
    /\ ~BothMarkers(page_source[1])
    /\ page_source[1].thread_items # <<>>
    /\ page_loaded = {2}
    /\ thread_loaded = {2}
    /\ posts # <<>>

\* the thread items of the blocks that hold both markers and are valid JSON
ValidItems(src) ==
    UNION { UNION { { src[b].thread_items[g].items[t] :
                        t \in 1..Len(src[b].thread_items[g].items) } :
                    g \in 1..Len(src[b].thread_items) } :
            b \in { c \in 1..Len(src) : BothMarkers(src[c]) /\ src[c].valid } }

\* C13, as claimed: a block with both markers that is not valid JSON never ends a
\* call: scrape_thread does not end with the error of json.loads, and what
\* scrape_thread_page returns holds the id of every record of the valid blocks.
C13_BadJsonNeverAborts ==
    /\ thread_pc # "json_error"
    /\ page_pc = "returned" =>
           \A t \in ValidItems(page_source) :
               Truthy(parse_thread(t)) =>
                   \E k \in 1..Len(posts) : Str(posts[k].id) = Str(parse_thread(t).id)

\* the records of a page in document order: those of every block that holds both
\* markers and whose thread items can be read
RECURSIVE DocumentRecords(_)
DocumentRecords(src) ==
    IF src = <<>>
    THEN <<>>
    ELSE (IF BothMarkers(Head(src)) /\ Head(src).valid /\ ~ComprehensionRaises(Head(src))
          THEN ParseGroups(Head(src).thread_items)
          ELSE <<>>) \o DocumentRecords(Tail(src))

\* C14, as claimed: what scrape_thread returns has the first record of the page as
\* `thread` and drops no record of the page: the id of every record of every block
\* is the id of `thread` or of one of `replies`.
C14_ThreadAndAllReplies ==
    thread_pc = "returned" =>
        LET records == DocumentRecords(page_source) IN
        /\ thread_result.thread = Head(records)
        /\ \A i \in 1..Len(records) :
               \E r \in ThreadRecords : Str(r.id) = Str(records[i].id)

\* the reply count the claim gives for a raw value
ExpectedReplyCount(rc) ==
    CASE rc.kind = "int" -> rc
      [] rc.kind = "str" -> RcInt(IntOf(FirstDigitRun(rc.chars)))
      [] rc.kind = "null" -> RcInt(0)

\* C15, as claimed: both parse_thread give the same reply count, which is the
\* integer itself, the first run of digits of a string, and 0 without digits or
\* for null.
C15_SameReplyCount ==
    rc_pc = "both_done" =>
        /\ rc_en = rc_main
        /\ rc_main = ExpectedReplyCount(rc_in)

====
